---- MODULE Spec2Model ----
(***************************************************************************)
(* Inventory backend: the category tree engine (CategoryDAO over the       *)
(* Category model), the quantity ledger (InventoryTransactionDAO) and the  *)
(* product stock coordinator (ProductController / ProductDAO).             *)
(*                                                                         *)
(* Strings of the program that are built from "/"-separated segments (the  *)
(* materialized path) are sequences of segments here.  A segment is either *)
(* an ObjectId (24 hex digits, fixed width) or a slug; ObjectIds are       *)
(* generated by the driver and slugs are derived from names, and the model *)
(* keeps the two sets disjoint.  Under that condition the anchored regex   *)
(* /^pattern/i of the source, whose pattern always ends in an ObjectId,    *)
(* matches a path exactly when the pattern's segments are a prefix of the  *)
(* path's segments.                                                        *)
(***************************************************************************)
EXTENDS Integers, Sequences, FiniteSets, TLC

VARIABLES
  cats,      \* the Category collection: _id -> document
  nextCat,   \* number of Category documents created so far
  products,  \* the Product collection: _id -> document
  ledger,    \* the InventoryTransaction collection, in creation order
  handed,    \* what the last createTransaction call passed to BaseDAO.create
  steps,     \* operations performed so far
  last,      \* the last operation: its name, arguments and outcome
  reqs,      \* product requests served step by step: their local variables
  manager    \* the in-memory InventoryManager

vars == <<cats, nextCat, products, ledger, handed, steps, last, reqs, manager>>

\* ------------------------------------------------------------------------
\* Bounds of the model
\* ------------------------------------------------------------------------
\* categories created in a run
MaxCats == 4
\* operations performed in a run
MaxSteps == 4
\* products created in a run
MaxProducts == 1
\* largest product quantity a request names
MaxQty == 2
\* ledger entries written in a run of the stock coordinator
MaxLedger == 2
\* ledger entries written in a run of the ledger component alone
MaxDirect == 1
\* product requests served concurrently in a run
MaxRequests == 3
\* Product objects constructed by the in-memory manager in a run
MaxGenerated == 3

\* ------------------------------------------------------------------------
\* Category documents
\* ------------------------------------------------------------------------
NoParent == "null"

\* an id that no document ever had
GhostId == "c0"

\* a string that is not an ObjectId: casting it to one throws a CastError
MalformedId == "not-an-id"

\* ObjectIds in the order the driver hands them out
CatIds == <<"c1", "c2", "c3", "c4", "c5", "c6">>

\* the name given to the n-th created category (names are unique)
CatNames == <<"Electronics", "Computers", "Laptops", "Phones", "Audio", "Tablets">>

\* position of a name in the ascending string order used by sort({name: 1})
NameRank(name) ==
  CASE name = "Audio" -> 1
    [] name = "Computers" -> 2
    [] name = "Electronics" -> 3
    [] name = "Laptops" -> 4
    [] name = "Phones" -> 5
    [] name = "Tablets" -> 6

\* pre("save"): name.toLowerCase().replace(...).replace(...).trim()
Slugify(name) ==
  CASE name = "Audio" -> "audio"
    [] name = "Computers" -> "computers"
    [] name = "Electronics" -> "electronics"
    [] name = "Laptops" -> "laptops"
    [] name = "Phones" -> "phones"
    [] name = "Tablets" -> "tablets"

Statuses == {"active", "inactive"}

DefaultLimit == 50

\* ------------------------------------------------------------------------
\* Helpers on paths
\* ------------------------------------------------------------------------
IsPrefix(p, s) == Len(p) <= Len(s) /\ SubSeq(s, 1, Len(p)) = p

\* `${x.path}/${id}` when x.path is non-empty, else id
ChildPath(path, seg) == IF path # <<>> THEN Append(path, seg) ELSE <<seg>>

\* Array.prototype.indexOf: first position of seg in parts, 0 when absent
IndexOf(parts, seg) ==
  IF \E i \in 1..Len(parts) : parts[i] = seg
  THEN CHOOSE i \in 1..Len(parts) :
         parts[i] = seg /\ \A j \in 1..(i - 1) : parts[j] # seg
  ELSE 0

\* ------------------------------------------------------------------------
\* BaseDAO
\* ------------------------------------------------------------------------
\* outcome of a DAO call on the category collection: the collection after the
\* call, and the name and message of the error it threw
Ok(cs) == [cs |-> cs, ok |-> TRUE, err |-> "none", msg |-> "none"]
Fail(cs, kind, msg) == [cs |-> cs, ok |-> FALSE, err |-> kind, msg |-> msg]

\* BaseDAO._handleError, on the name of the error.  "MongooseValidationError"
\* is the driver's ValidationError, which carries .errors; the error this
\* function builds from it is named ValidationError and carries no .errors,
\* so handing that one to _handleError again throws a TypeError out of
\* Object.values(error.errors).
_handleError(kind) ==
  CASE kind = "MongooseValidationError" -> "ValidationError"
    [] kind = "ValidationError" -> "TypeError"
    [] OTHER -> kind

\* the catch block "throw this._handleError(error, ...)" around a DAO method
Caught(r) == IF r.ok THEN r ELSE [r EXCEPT !.err = _handleError(r.err)]

\* sort({level: 1, sortOrder: 1, name: 1})
LevelOrder(cs, a, b) ==
  \/ cs[a].level < cs[b].level
  \/ /\ cs[a].level = cs[b].level
     /\ \/ cs[a].sortOrder < cs[b].sortOrder
        \/ /\ cs[a].sortOrder = cs[b].sortOrder
           /\ NameRank(cs[a].name) < NameRank(cs[b].name)

\* sort({sortOrder: 1, name: 1})
SiblingOrder(cs, a, b) ==
  \/ cs[a].sortOrder < cs[b].sortOrder
  \/ /\ cs[a].sortOrder = cs[b].sortOrder
     /\ NameRank(cs[a].name) < NameRank(cs[b].name)

\* BaseDAO.find with the default limit and skip 0: the first DefaultLimit
\* documents of the matching set S in the given order
FindLevelOrder(cs, S) ==
  {d \in S : Cardinality({e \in S : LevelOrder(cs, e, d)}) < DefaultLimit}

FindSiblingOrder(cs, S) ==
  {d \in S : Cardinality({e \in S : SiblingOrder(cs, e, d)}) < DefaultLimit}

RECURSIVE SortLevelOrder(_, _)
SortLevelOrder(cs, S) ==
  IF S = {} THEN <<>>
  ELSE LET m == CHOOSE d \in S : \A e \in S \ {d} : LevelOrder(cs, d, e)
       IN <<m>> \o SortLevelOrder(cs, S \ {m})

RECURSIVE SortSiblingOrder(_, _)
SortSiblingOrder(cs, S) ==
  IF S = {} THEN <<>>
  ELSE LET m == CHOOSE d \in S : \A e \in S \ {d} : SiblingOrder(cs, d, e)
       IN <<m>> \o SortSiblingOrder(cs, S \ {m})

\* findByIdAndUpdate(id, data, {runValidators: true}) on a category: the
\* only validator the written fields can fail is level >= 0
updateById(cs, id, data) ==
  IF id = MalformedId
  THEN Caught(Fail(cs, "CastError", "Cast to ObjectId failed"))
  ELSE IF id \notin DOMAIN cs THEN Ok(cs)
  ELSE IF "level" \in DOMAIN data /\ data.level < 0
  THEN Caught(Fail(cs, "MongooseValidationError", "Validation failed"))
  ELSE Ok([cs EXCEPT ![id] =
             [f \in DOMAIN cs[id] |-> IF f \in DOMAIN data THEN data[f] ELSE cs[id][f]]])

\* findByIdAndDelete / deleteMany({_id: {$in: ids}})
deleteMany(cs, ids) == [c \in (DOMAIN cs) \ ids |-> cs[c]]

\* ------------------------------------------------------------------------
\* CategoryDAO
\* ------------------------------------------------------------------------
\* getChildren(parentId): {parent: parentId, status: "active"}
getChildren(cs, parentId) ==
  FindSiblingOrder(cs, {c \in DOMAIN cs : cs[c].parent = parentId /\ cs[c].status = "active"})

\* getDescendants(categoryId), for an existing category
getDescendants(cs, categoryId) ==
  LET pathPattern == ChildPath(cs[categoryId].path, categoryId)
  IN FindLevelOrder(cs, {c \in DOMAIN cs :
                           IsPrefix(pathPattern, cs[c].path) /\ cs[c].status = "active"})

\* the string casts to an ObjectId: the ids the driver hands out do, the
\* slugs do not
IsObjectId(seg) == seg = GhostId \/ \E i \in 1..Len(CatIds) : CatIds[i] = seg

\* the orders in which find(..., {sort: {level: 1}}) followed by
\* documents.sort((a, b) => a.level - b.level) can return the documents S:
\* ascending in level, documents of one level in any order
SortedByLevel(cs, S) ==
  {q \in [1..Cardinality(S) -> S] :
     /\ \A i, j \in 1..Cardinality(S) : i # j => q[i] # q[j]
     /\ \A i, j \in 1..Cardinality(S) : i < j => cs[q[i]].level <= cs[q[j]].level}

\* getAncestors(categoryId): outs is the set of lists the call can return
getAncestors(cs, categoryId) ==
  LET ancestorIds == cs[categoryId].path
      found == {c \in DOMAIN cs : \E i \in 1..Len(ancestorIds) : ancestorIds[i] = c}
  IN IF categoryId \notin DOMAIN cs \/ cs[categoryId].path = <<>>
     THEN [ok |-> TRUE, err |-> "none", outs |-> {<<>>}]
     ELSE IF \E i \in 1..Len(ancestorIds) : ~IsObjectId(ancestorIds[i])
     THEN [ok |-> FALSE, err |-> _handleError("CastError"), outs |-> {}]
     ELSE [ok |-> TRUE, err |-> "none",
           outs |-> SortedByLevel(cs, {d \in found :
                      Cardinality({e \in found : cs[e].level < cs[d].level}) < DefaultLimit})]

\* getCategoryTree() with rootId = null and maxDepth = null: the list of
\* root nodes and, for every fetched document, its children list
getCategoryTree(cs) ==
  LET documents == FindLevelOrder(cs, {c \in DOMAIN cs : cs[c].status = "active"})
  IN [rootCategories |-> SortLevelOrder(cs, {c \in documents : cs[c].parent = NoParent}),
      children |-> [d \in documents |->
                      SortLevelOrder(cs, {c \in documents : cs[c].parent = d})]]

\* the loop of _updateDescendantPaths over the fetched documents (values of
\* snap), writing into cs; a rejected write ends the loop with the error
RECURSIVE UpdateLoop(_, _, _, _, _)
UpdateLoop(cs, snap, todo, categoryId, newParentPath) ==
  IF todo = <<>> THEN Ok(cs)
  ELSE LET d == Head(todo)
           oldPathParts == snap[d].path
           categoryIndex == IndexOf(oldPathParts, categoryId)
           relativePath == SubSeq(oldPathParts, categoryIndex + 1, Len(oldPathParts))
           newPath == ChildPath(newParentPath, categoryId) \o relativePath
           levelDifference == Len(oldPathParts) - Len(newPath)
           newLevel == snap[d].level - levelDifference
           r == updateById(cs, d, [path |-> newPath, level |-> newLevel])
       IN IF categoryIndex = 0
          THEN UpdateLoop(cs, snap, Tail(todo), categoryId, newParentPath)
          ELSE IF ~r.ok THEN r
          ELSE UpdateLoop(r.cs, snap, Tail(todo), categoryId, newParentPath)

_updateDescendantPaths(cs, categoryId, newParentPath, newParentLevel) ==
  Caught(UpdateLoop(cs, cs, SortLevelOrder(cs, getDescendants(cs, categoryId)),
                    categoryId, newParentPath))

\* moveCategory writing the parent pointer before it resolves the new parent
moveCategoryWriteFirst(cs, categoryId, newParentId, idIsString) ==
  Caught(
    IF categoryId \notin DOMAIN cs THEN Fail(cs, "Error", "Category not found")
    ELSE LET r == updateById(cs, categoryId, [parent |-> newParentId])
         IN IF newParentId # NoParent /\ newParentId \notin DOMAIN cs
            THEN Fail(r.cs, "Error", "New parent category not found")
            ELSE r)

\* moveCategory(categoryId, newParentId).  idIsString is false when the
\* caller passes the parent as an ObjectId object (deleteWithChildren passes
\* category.parent): desc._id.toString() === newParentId is then never true.
moveCategory(cs, categoryId, newParentId, idIsString) ==
  Caught(
    IF categoryId \notin DOMAIN cs THEN Fail(cs, "Error", "Category not found")
    ELSE IF newParentId # NoParent
    THEN IF newParentId \notin DOMAIN cs
         THEN Fail(cs, "Error", "New parent category not found")
         ELSE IF idIsString /\ newParentId \in getDescendants(cs, categoryId)
         THEN Fail(cs, "Error", "Cannot move category to its own descendant")
         ELSE LET newLevel == cs[newParentId].level + 1
                  newPath == ChildPath(cs[newParentId].path, newParentId)
                  r == updateById(cs, categoryId,
                                  [parent |-> newParentId, level |-> newLevel, path |-> newPath])
              IN IF ~r.ok THEN r
                 ELSE _updateDescendantPaths(r.cs, categoryId, newPath, newLevel)
    ELSE LET r == updateById(cs, categoryId,
                             [parent |-> NoParent, level |-> 0, path |-> <<>>])
         IN IF ~r.ok THEN r
            ELSE _updateDescendantPaths(r.cs, categoryId, <<>>, 0))

\* the loop "for (const childId of childrenIds) await this.moveCategory(childId, target)"
RECURSIVE MoveEach(_, _, _, _)
MoveEach(cs, childrenIds, target, idIsString) ==
  IF childrenIds = <<>> THEN Ok(cs)
  ELSE LET r == moveCategory(cs, Head(childrenIds), target, idIsString)
       IN IF ~r.ok THEN r ELSE MoveEach(r.cs, Tail(childrenIds), target, idIsString)

DefaultAction == "move_to_parent"

\* the loop of reorderCategories: the collection after it and the results.
\* updateById resolves to null for an id that matches no document, and the
\* entry is then pushed to successful with category: null.
RECURSIVE ReorderLoop(_, _, _)
ReorderLoop(cs, categoryOrders, results) ==
  IF categoryOrders = <<>> THEN [cs |-> cs, results |-> results]
  ELSE LET order == Head(categoryOrders)
           r == updateById(cs, order.categoryId, [sortOrder |-> order.sortOrder])
           pushed ==
             IF r.ok
             THEN [results EXCEPT !.flags = Append(@, TRUE),
                                  !.successful = Append(@, [categoryId |-> order.categoryId,
                                                            sortOrder |-> order.sortOrder])]
             ELSE [results EXCEPT !.flags = Append(@, FALSE),
                                  !.failed = Append(@, [categoryId |-> order.categoryId,
                                                        error |-> r.msg])]
       IN ReorderLoop(r.cs, Tail(categoryOrders), pushed)

reorderCategories(cs, categoryOrders) ==
  ReorderLoop(cs, categoryOrders, [flags |-> <<>>, successful |-> <<>>, failed |-> <<>>])

\* deleteWithChildren whose switch has no default case
deleteWithChildrenNoDefault(cs, categoryId, action) ==
  Caught(
    IF categoryId \notin DOMAIN cs THEN Fail(cs, "Error", "Category not found")
    ELSE LET category == cs[categoryId]
             childrenIds == SortSiblingOrder(cs, getChildren(cs, categoryId))
             handled ==
               CASE action = "move_to_parent" ->
                      MoveEach(cs, childrenIds, category.parent, FALSE)
                 [] action = "move_to_root" ->
                      MoveEach(cs, childrenIds, NoParent, TRUE)
                 [] action = "delete_all" ->
                      Ok(deleteMany(cs, getDescendants(cs, categoryId)))
                 [] OTHER -> Ok(cs)
         IN IF ~handled.ok THEN handled
            ELSE Ok(deleteMany(handled.cs, {categoryId})))

\* deleteWithChildren(categoryId, action)
deleteWithChildren(cs, categoryId, action) ==
  Caught(
    IF categoryId \notin DOMAIN cs THEN Fail(cs, "Error", "Category not found")
    ELSE LET category == cs[categoryId]
             childrenIds == SortSiblingOrder(cs, getChildren(cs, categoryId))
             handled ==
               CASE action = "move_to_parent" ->
                      MoveEach(cs, childrenIds, category.parent, FALSE)
                 [] action = "move_to_root" ->
                      MoveEach(cs, childrenIds, NoParent, TRUE)
                 [] action = "delete_all" ->
                      Ok(deleteMany(cs, getDescendants(cs, categoryId)))
                 [] OTHER -> Fail(cs, "Error", "Invalid action")
         IN IF ~handled.ok THEN handled
            ELSE Ok(deleteMany(handled.cs, {categoryId})))

\* CategoryController.deleteCategory: DELETE /api/categories/:id?force=...
\* children is the {documents, pagination} object of getChildren, so
\* children.length is undefined and "children.length > 0" is false
deleteCategory(cs, id, force) ==
  IF id \notin DOMAIN cs THEN Fail(cs, "404", "Category not found")
  ELSE LET childrenLengthPositive == FALSE
       IN IF childrenLengthPositive /\ ~force
          THEN Fail(cs, "400", "Category has subcategories")
          ELSE IF force THEN deleteWithChildren(cs, id, DefaultAction)
          ELSE updateById(cs, id, [status |-> "inactive"])

\* CategoryController.updateCategory: PUT /api/categories/:id with req.body.
\* findByIdAndUpdate writes the fields of the body as given; pre("save") is
\* not run by it.
updateCategory(cs, id, body) ==
  LET r == updateById(cs, id, body)
  IN IF ~r.ok THEN r
     ELSE IF id \notin DOMAIN cs THEN Fail(cs, "404", "Category not found")
     ELSE r

\* categorySchema.pre("save") followed by the insert, for a new document
SaveNew(cs, id, data) ==
  LET parentFound == data.parent # NoParent /\ data.parent \in DOMAIN cs
      level == IF data.parent = NoParent THEN 0
               ELSE IF parentFound THEN cs[data.parent].level + 1
               ELSE data.level
      path == IF data.parent = NoParent THEN <<>>
              ELSE IF parentFound
              THEN ChildPath(cs[data.parent].path, cs[data.parent].slug)
              ELSE data.path
      doc == [name |-> data.name, slug |-> Slugify(data.name), parent |-> data.parent,
              level |-> level, path |-> path, status |-> data.status,
              sortOrder |-> data.sortOrder]
  IN [c \in (DOMAIN cs) \cup {id} |-> IF c = id THEN doc ELSE cs[c]]

\* ------------------------------------------------------------------------
\* Quantity ledger: InventoryTransactionDAO over the InventoryTransaction model
\* ------------------------------------------------------------------------
\* a string field the caller left out (undefined)
Missing == "missing"

\* a numeric field the caller left out (undefined)
NoNumber == 0 - 1000

Types == {"stock_in", "stock_out", "adjustment", "damaged", "expired", "transfer", "returned"}

\* enum of inventoryTransactionSchema.type
SchemaTypes == {"stock_in", "stock_out", "adjustment", "damaged", "expired", "transfer"}

Abs(x) == IF x < 0 THEN -x ELSE x

\* a required-field test that lets every value through
FalsyNever(v) == FALSE

\* !transactionData[field], for a string field and for a numeric field
Falsy(v) == v = Missing

FalsyNumber(v) == v = NoNumber \/ v = 0

\* the sign rule with "returned" left out of the outbound types
NormalizeQuantityNoReturned(type, quantity) ==
  IF type \in {"stock_out", "damaged", "expired"} THEN Abs(quantity) * (-1)
  ELSE IF type \in {"stock_in", "adjustment"} THEN Abs(quantity)
  ELSE quantity

\* the sign rule of createTransaction
NormalizeQuantity(type, quantity) ==
  IF type \in {"stock_out", "damaged", "expired", "returned"} THEN Abs(quantity) * (-1)
  ELSE IF type \in {"stock_in", "adjustment"} THEN Abs(quantity)
  ELSE quantity

\* validation of a new InventoryTransaction document on save
ValidTransaction(doc) ==
  /\ doc.product # Missing
  /\ doc.type \in SchemaTypes
  /\ doc.quantity # NoNumber /\ doc.quantity # 0
  /\ doc.previousQuantity # NoNumber
  /\ doc.newQuantity # NoNumber
  /\ doc.reason # Missing
  /\ doc.performedBy # Missing

NotHanded == [type |-> "none", quantity |-> 0]

LOk(lg, h) == [ledger |-> lg, ok |-> TRUE, err |-> "none", msg |-> "none", handed |-> h]
LFail(lg, kind, msg, h) == [ledger |-> lg, ok |-> FALSE, err |-> kind, msg |-> msg, handed |-> h]

LCaught(r) == IF r.ok THEN r ELSE [r EXCEPT !.err = _handleError(r.err)]

\* InventoryTransactionDAO.createTransaction(transactionData)
createTransaction(lg, data) ==
  LCaught(
    IF Falsy(data.product) THEN LFail(lg, "Error", "product is required", NotHanded)
    ELSE IF Falsy(data.type) THEN LFail(lg, "Error", "type is required", NotHanded)
    ELSE IF FalsyNumber(data.quantity) THEN LFail(lg, "Error", "quantity is required", NotHanded)
    ELSE LET doc == [data EXCEPT !.quantity = NormalizeQuantity(data.type, data.quantity)]
             h == [type |-> doc.type, quantity |-> doc.quantity]
         IN IF ValidTransaction(doc) THEN LOk(Append(lg, doc), h)
            ELSE LCaught(LFail(lg, "MongooseValidationError", "Validation failed", h)))

\* BaseDAO.updateById(id, data), inherited by InventoryTransactionDAO; the
\* n-th entry of the ledger stands for the document with that id, and the
\* quantity validator (a non-zero integer) runs on the written value
updateTransactionById(lg, n, data) ==
  IF n \notin 1..Len(lg) THEN LOk(lg, NotHanded)
  ELSE IF "quantity" \in DOMAIN data /\ data.quantity = 0
  THEN LCaught(LFail(lg, "MongooseValidationError", "Validation failed", NotHanded))
  ELSE LOk([lg EXCEPT ![n] =
              [f \in DOMAIN lg[n] |-> IF f \in DOMAIN data THEN data[f] ELSE lg[n][f]]],
           NotHanded)

\* BaseDAO.deleteById(id), inherited by InventoryTransactionDAO
deleteTransactionById(lg, n) ==
  IF n \notin 1..Len(lg) THEN LOk(lg, NotHanded)
  ELSE LOk([i \in 1..(Len(lg) - 1) |-> IF i < n THEN lg[i] ELSE lg[i + 1]], NotHanded)

\* InventoryTransactionController.approveTransaction: the body must carry
\* approvedBy; inventoryTransactionDAO.approveTransaction is not a function
\* of the DAO, so the call throws a TypeError and nothing is written
approveTransaction(lg, n, approvedBy) ==
  IF Falsy(approvedBy)
  THEN LFail(lg, "400", "Approved by information is required", NotHanded)
  ELSE LFail(lg, "TypeError", "approveTransaction is not a function", NotHanded)

\* the loop of bulkCreateTransactions: the ledger after it and, per entry,
\* whether it went to successful (TRUE) or to failed (FALSE)
RECURSIVE BulkCreateLoop(_, _, _)
BulkCreateLoop(lg, transactions, flags) ==
  IF transactions = <<>> THEN [ledger |-> lg, flags |-> flags]
  ELSE LET r == createTransaction(lg, Head(transactions))
       IN BulkCreateLoop(r.ledger, Tail(transactions), Append(flags, r.ok))

bulkCreateTransactions(lg, transactions) == BulkCreateLoop(lg, transactions, <<>>)

\* ------------------------------------------------------------------------
\* Product stock coordinator: ProductDAO and ProductController
\* ------------------------------------------------------------------------
ProductIds == <<"p1", "p2", "p3", "p4">>

GhostProduct == "p0"

\* the quantity validation without the min: 0 rule
ValidQuantityNoMin(quantity) == quantity # NoNumber

\* productSchema.quantity: required, min 0, integer
ValidQuantity(quantity) == quantity # NoNumber /\ quantity >= 0

POk(ps, lg) == [products |-> ps, ledger |-> lg, ok |-> TRUE, err |-> "none", msg |-> "none"]
PFail(ps, lg, kind, msg) == [products |-> ps, ledger |-> lg, ok |-> FALSE, err |-> kind, msg |-> msg]

PCaught(r) == IF r.ok THEN r ELSE [r EXCEPT !.err = _handleError(r.err)]

\* BaseDAO.updateById(id, data) on the Product collection with
\* runValidators: true; data.quantity is Missing when the body has no quantity
updateProductById(ps, lg, id, quantity) ==
  IF id \notin DOMAIN ps THEN POk(ps, lg)
  ELSE IF quantity = NoNumber THEN POk(ps, lg)
  ELSE IF ~ValidQuantity(quantity)
  THEN PCaught(PFail(ps, lg, "MongooseValidationError", "Validation failed"))
  ELSE POk([ps EXCEPT ![id].quantity = quantity], lg)

\* ProductController.createProduct: productDAO.create(req.body), then the
\* stock_in entry for a positive initial quantity
createProduct(ps, lg, id, quantity) ==
  IF ~ValidQuantity(quantity)
  THEN PCaught(PFail(ps, lg, "MongooseValidationError", "Validation failed"))
  ELSE LET ps1 == [p \in (DOMAIN ps) \cup {id} |->
                     IF p = id THEN [quantity |-> quantity] ELSE ps[p]]
           t == createTransaction(lg, [product |-> id, type |-> "stock_in",
                                       quantity |-> quantity, previousQuantity |-> 0,
                                       newQuantity |-> quantity, reason |-> "Initial stock",
                                       performedBy |-> "System"])
       IN IF quantity > 0
          THEN IF t.ok THEN POk(ps1, t.ledger) ELSE PFail(ps1, t.ledger, t.err, t.msg)
          ELSE POk(ps1, lg)

\* ProductController.updateProduct
updateProduct(ps, lg, id, quantity) ==
  IF id \notin DOMAIN ps THEN PFail(ps, lg, "404", "Product not found")
  ELSE LET previousQuantity == ps[id].quantity
           u == updateProductById(ps, lg, id, quantity)
           updated == u.products[id].quantity
           t == createTransaction(lg, [product |-> id, type |-> "adjustment",
                                       quantity |-> updated - previousQuantity,
                                       previousQuantity |-> previousQuantity,
                                       newQuantity |-> updated, reason |-> "Product update",
                                       performedBy |-> "User"])
       IN IF ~u.ok THEN u
          ELSE IF previousQuantity # updated
          THEN IF t.ok THEN POk(u.products, t.ledger)
               ELSE PFail(u.products, t.ledger, t.err, t.msg)
          ELSE u

\* updateQuantity without the findById guard
updateQuantityNoFind(ps, lg, productId, quantity) ==
  PCaught(updateProductById(ps, lg, productId, quantity))

\* ProductDAO.updateQuantity(productId, quantity, reason)
updateQuantity(ps, lg, productId, quantity) ==
  PCaught(
    IF productId \notin DOMAIN ps THEN PFail(ps, lg, "Error", "Product not found")
    ELSE updateProductById(ps, lg, productId, quantity))

\* a descriptor whose previous is read after the write
quantityChangeAfterWrite(ps, productId, quantity) ==
  [previous |-> quantity, current |-> quantity, difference |-> 0]

\* the quantityChange descriptor updateQuantity returns: previous is
\* product.quantity of the document found before the write, current is the
\* quantity argument
quantityChange(ps, productId, quantity) ==
  [previous |-> ps[productId].quantity, current |-> quantity,
   difference |-> quantity - ps[productId].quantity]

\* ProductController.updateProductQuantity
updateProductQuantity(ps, lg, id, quantity) ==
  IF quantity = NoNumber \/ quantity < 0
  THEN PFail(ps, lg, "400", "Valid quantity is required")
  ELSE updateQuantity(ps, lg, id, quantity)

\* const results = {successful: [], failed: []}; flags records, per entry,
\* whether the try block completed (TRUE) or the catch block ran (FALSE)
NoResults == [flags |-> <<>>, successful |-> <<>>, failed |-> <<>>]

\* the loop of bulkUpdateQuantities: the products after it and the results
RECURSIVE BulkUpdateLoop(_, _, _, _)
BulkUpdateLoop(ps, lg, updates, results) ==
  IF updates = <<>> THEN [products |-> ps, results |-> results]
  ELSE LET update == Head(updates)
           r == updateQuantity(ps, lg, update.productId, update.quantity)
           pushed ==
             IF r.ok
             THEN [results EXCEPT !.flags = Append(@, TRUE),
                                  !.successful = Append(@, [productId |-> update.productId,
                                                            current |-> update.quantity])]
             ELSE [results EXCEPT !.flags = Append(@, FALSE),
                                  !.failed = Append(@, [productId |-> update.productId,
                                                        error |-> r.msg])]
       IN BulkUpdateLoop(r.products, lg, Tail(updates), pushed)

bulkUpdateQuantities(ps, lg, updates) == BulkUpdateLoop(ps, lg, updates, NoResults)

\* productSchema.methods.updateQuantity(change) on the loaded document id
methodUpdateQuantity(ps, lg, id, change) ==
  LET newQuantity == ps[id].quantity + change
  IN IF newQuantity < 0 THEN PFail(ps, lg, "Error", "Cannot reduce quantity below zero")
     ELSE IF ~ValidQuantity(newQuantity)
     THEN PFail(ps, lg, "MongooseValidationError", "Validation failed")
     ELSE POk([ps EXCEPT ![id].quantity = newQuantity], lg)

\* ------------------------------------------------------------------------
\* State machine of the category tree
\* ------------------------------------------------------------------------
\* ids a caller can name: the live ones and one that never existed
KnownIds == (DOMAIN cats) \cup {GhostId}

Actions == {"move_to_parent", "move_to_root", "delete_all", "archive"}

NoOut == <<>>

Label(op, id, arg, r) ==
  [op |-> op, id |-> id, arg |-> arg, ok |-> r.ok, err |-> r.err, msg |-> r.msg, out |-> NoOut]

Init ==
  /\ cats = <<>>
  /\ nextCat = 0
  /\ products = <<>>
  /\ ledger = <<>>
  /\ handed = NotHanded
  /\ steps = 0
  /\ last = [op |-> "init", id |-> NoParent, arg |-> NoParent, ok |-> TRUE,
             err |-> "none", msg |-> "none", out |-> NoOut]
  /\ reqs = <<>>
  /\ manager = [products |-> <<>>, generated |-> 0]

\* level and path of a request body: the schema defaults when the body has
\* none, and one pair of values supplied by the caller
GivenLevelPath == {[level |-> 0, path |-> <<>>], [level |-> 2, path |-> <<GhostId>>]}

\* bodies of an update request that touch parent, level or path
UpdateBodies ==
  {[parent |-> x] : x \in KnownIds \cup {NoParent}}
    \cup {[level |-> 2], [level |-> 0 - 1], [path |-> <<GhostId>>]}

\* CategoryDAO.create(data) = BaseDAO.create: new Category(data).save()
Create ==
  /\ nextCat < MaxCats
  /\ steps < MaxSteps
  /\ \E parent \in KnownIds \cup {NoParent}, status \in Statuses, given \in GivenLevelPath :
       LET id == CatIds[nextCat + 1]
           data == [name |-> CatNames[nextCat + 1], parent |-> parent, status |-> status,
                    level |-> given.level, path |-> given.path, sortOrder |-> 0]
       IN /\ cats' = SaveNew(cats, id, data)
          /\ nextCat' = nextCat + 1
          /\ steps' = steps + 1
          /\ last' = Label("create", id, parent, Ok(cats'))
  /\ UNCHANGED <<manager, reqs, products, ledger, handed>>

\* CategoryDAO.moveCategory(categoryId, newParentId) called with string ids
Move ==
  /\ steps < MaxSteps
  /\ \E categoryId \in KnownIds, newParentId \in KnownIds \cup {NoParent} :
       LET r == moveCategory(cats, categoryId, newParentId, TRUE)
       IN /\ cats' = r.cs
          /\ steps' = steps + 1
          /\ last' = Label("moveCategory", categoryId, newParentId, r)
  /\ UNCHANGED <<manager, reqs, nextCat, products, ledger, handed>>

\* CategoryDAO.deleteWithChildren(categoryId, action); "default" is a call
\* that leaves the action out
DeleteWithChildren ==
  /\ steps < MaxSteps
  /\ \E categoryId \in KnownIds, action \in Actions \cup {"default"} :
       LET r == deleteWithChildren(cats, categoryId,
                                   IF action = "default" THEN DefaultAction ELSE action)
       IN /\ cats' = r.cs
          /\ steps' = steps + 1
          /\ last' = Label("deleteWithChildren", categoryId, action, r)
  /\ UNCHANGED <<manager, reqs, nextCat, products, ledger, handed>>

\* CategoryController.deleteCategory
DeleteCategory ==
  /\ steps < MaxSteps
  /\ \E id \in KnownIds, force \in BOOLEAN :
       LET r == deleteCategory(cats, id, force)
       IN /\ cats' = r.cs
          /\ steps' = steps + 1
          /\ last' = Label("deleteCategory", id, IF force THEN "force" ELSE "noforce", r)
  /\ UNCHANGED <<manager, reqs, nextCat, products, ledger, handed>>

\* CategoryDAO.reorderCategories with a list of two orders
Reorder ==
  /\ steps < MaxSteps
  /\ \E i1 \in KnownIds \cup {MalformedId}, i2 \in KnownIds \cup {MalformedId} :
       LET categoryOrders == <<[categoryId |-> i1, sortOrder |-> 1],
                               [categoryId |-> i2, sortOrder |-> 2]>>
           r == reorderCategories(cats, categoryOrders)
       IN /\ cats' = r.cs
          /\ steps' = steps + 1
          /\ last' = [op |-> "reorderCategories", id |-> NoParent, arg |-> categoryOrders,
                      ok |-> TRUE, err |-> "none", msg |-> "none", out |-> r.results]
  /\ UNCHANGED <<manager, reqs, nextCat, products, ledger, handed>>

\* CategoryController.updateCategory
UpdateCategory ==
  /\ steps < MaxSteps
  /\ \E id \in KnownIds, body \in UpdateBodies :
       LET r == updateCategory(cats, id, body)
       IN /\ cats' = r.cs
          /\ steps' = steps + 1
          /\ last' = Label("updateCategory", id, body, r)
  /\ UNCHANGED <<manager, reqs, nextCat, products, ledger, handed>>

Next ==
  \/ Create
  \/ Move
  \/ DeleteWithChildren
  \/ DeleteCategory
  \/ Reorder
  \/ UpdateCategory

Spec == Init /\ [][Next]_vars

\* the runs made of create, moveCategory and deleteWithChildren only
TreeNext ==
  \/ Create
  \/ Move
  \/ DeleteWithChildren

TreeSpec == Init /\ [][TreeNext]_vars

\* ------------------------------------------------------------------------
\* State machine of the ledger component used on its own
\* ------------------------------------------------------------------------
\* (previousQuantity, newQuantity) snapshots a caller supplies
Snapshots == {<<1, 0>>, <<NoNumber, 1>>}

Quantities == {-1, 0, 2, NoNumber}

TransactionInputs ==
  {[product |-> p, type |-> t, quantity |-> q, previousQuantity |-> s[1],
    newQuantity |-> s[2], reason |-> "Manual", performedBy |-> "User"] :
     p \in {"p1", Missing}, t \in Types \cup {Missing}, q \in Quantities, s \in Snapshots}

\* entries a bulk request is built from
BulkInputs ==
  {d \in TransactionInputs :
     /\ d.type \in {"stock_out", "returned"}
     /\ d.quantity \in {0, 2}
     /\ d.previousQuantity = 1 /\ d.newQuantity = 0}

\* InventoryTransactionController.createTransaction(req.body)
CreateTransaction ==
  /\ \E data \in TransactionInputs :
       LET r == createTransaction(ledger, data)
       IN /\ Len(r.ledger) <= MaxDirect
          /\ ledger' = r.ledger
          /\ handed' = r.handed
          /\ last' = [Label("createTransaction", data.product, data.type, r)
                        EXCEPT !.out = <<data.quantity, data.previousQuantity,
                                         data.newQuantity>>]
  /\ UNCHANGED <<manager, reqs, cats, nextCat, products, steps>>

\* InventoryTransactionDAO.bulkCreateTransactions(transactions)
BulkCreateTransactions ==
  /\ \E a \in BulkInputs, b \in BulkInputs :
       LET r == bulkCreateTransactions(ledger, <<a, b>>)
       IN /\ Len(r.ledger) <= MaxDirect
          /\ ledger' = r.ledger
          /\ handed' = NotHanded
          /\ last' = [op |-> "bulkCreateTransactions", id |-> Missing,
                      arg |-> <<a, b>>, ok |-> TRUE, err |-> "none", msg |-> "none",
                      out |-> r.flags]
  /\ UNCHANGED <<manager, reqs, cats, nextCat, products, steps>>

\* ids of ledger entries a caller can name: the stored ones and one more
KnownEntries == 1..(Len(ledger) + 1)

\* bodies of an update of a ledger entry
EntryUpdates == {[reason |-> "Corrected"], [quantity |-> 0]}

\* inventoryTransactionDAO.updateById(id, data)
UpdateTransactionById ==
  /\ \E n \in KnownEntries, data \in EntryUpdates :
       LET r == updateTransactionById(ledger, n, data)
       IN /\ ledger' = r.ledger
          /\ handed' = NotHanded
          /\ last' = Label("updateById", Missing, <<n, data>>, r)
  /\ UNCHANGED <<manager, reqs, cats, nextCat, products, steps>>

\* inventoryTransactionDAO.deleteById(id)
DeleteTransactionById ==
  /\ \E n \in KnownEntries :
       LET r == deleteTransactionById(ledger, n)
       IN /\ ledger' = r.ledger
          /\ handed' = NotHanded
          /\ last' = Label("deleteById", Missing, <<n>>, r)
  /\ UNCHANGED <<manager, reqs, cats, nextCat, products, steps>>

\* PATCH /api/transactions/:id/approve
ApproveTransaction ==
  /\ \E n \in KnownEntries, approvedBy \in {"User", Missing} :
       LET r == approveTransaction(ledger, n, approvedBy)
       IN /\ ledger' = r.ledger
          /\ handed' = NotHanded
          /\ last' = Label("approveTransaction", Missing, <<n, approvedBy>>, r)
  /\ UNCHANGED <<manager, reqs, cats, nextCat, products, steps>>

LedgerNext ==
  \/ CreateTransaction
  \/ BulkCreateTransactions
  \/ UpdateTransactionById
  \/ DeleteTransactionById
  \/ ApproveTransaction

LedgerSpec == Init /\ [][LedgerNext]_vars

\* ------------------------------------------------------------------------
\* State machine of the product stock coordinator
\* ------------------------------------------------------------------------
KnownProducts == (DOMAIN products) \cup {GhostProduct}

\* quantities a request can carry: one negative, and none at all
QtyInputs == (-1..MaxQty) \cup {NoNumber}

\* quantities the first and the second entry of a bulk update carry
BulkQtyInputs == <<{-1, 0}, {-1, MaxQty}>>

PLabel(op, id, arg, r) ==
  [op |-> op, id |-> id, arg |-> arg, ok |-> r.ok, err |-> r.err, msg |-> r.msg, out |-> NoOut]

\* POST /api/products
CreateProduct ==
  /\ Cardinality(DOMAIN products) < MaxProducts
  /\ \E quantity \in QtyInputs :
       LET id == ProductIds[Cardinality(DOMAIN products) + 1]
           r == createProduct(products, ledger, id, quantity)
       IN /\ Len(r.ledger) <= MaxLedger
          /\ products' = r.products
          /\ ledger' = r.ledger
          /\ last' = PLabel("createProduct", id, quantity, r)
  /\ UNCHANGED <<manager, reqs, cats, nextCat, handed, steps>>

\* PUT /api/products/:id
UpdateProduct ==
  /\ \E id \in KnownProducts, quantity \in QtyInputs :
       LET r == updateProduct(products, ledger, id, quantity)
       IN /\ Len(r.ledger) <= MaxLedger
          /\ products' = r.products
          /\ ledger' = r.ledger
          /\ last' = PLabel("updateProduct", id, quantity, r)
  /\ UNCHANGED <<manager, reqs, cats, nextCat, handed, steps>>

\* PATCH /api/products/:id/quantity
UpdateProductQuantity ==
  /\ \E id \in KnownProducts, quantity \in QtyInputs :
       LET r == updateProductQuantity(products, ledger, id, quantity)
       IN /\ products' = r.products
          /\ ledger' = r.ledger
          /\ last' = PLabel("updateProductQuantity", id, quantity, r)
  /\ UNCHANGED <<manager, reqs, cats, nextCat, handed, steps>>

\* ProductDAO.updateQuantity called directly
UpdateQuantity ==
  /\ \E id \in KnownProducts, quantity \in QtyInputs \ {NoNumber} :
       LET r == updateQuantity(products, ledger, id, quantity)
       IN /\ products' = r.products
          /\ ledger' = r.ledger
          /\ last' = [PLabel("updateQuantity", id, quantity, r) EXCEPT
                        !.out = IF r.ok /\ id \in DOMAIN products
                                THEN <<quantityChange(products, id, quantity)>>
                                ELSE NoOut]
  /\ UNCHANGED <<manager, reqs, cats, nextCat, handed, steps>>

\* ProductDAO.bulkUpdateQuantities with a list of two updates
BulkUpdateQuantities ==
  /\ \E i1 \in KnownProducts, q1 \in BulkQtyInputs[1],
        i2 \in KnownProducts, q2 \in BulkQtyInputs[2] :
       LET updates == <<[productId |-> i1, quantity |-> q1], [productId |-> i2, quantity |-> q2]>>
           r == bulkUpdateQuantities(products, ledger, updates)
       IN /\ products' = r.products
          /\ last' = [op |-> "bulkUpdateQuantities", id |-> Missing, arg |-> updates,
                      ok |-> TRUE, err |-> "none", msg |-> "none", out |-> r.results]
  /\ UNCHANGED <<manager, reqs, cats, nextCat, ledger, handed, steps>>

\* product.updateQuantity(change) on a loaded document
MethodUpdateQuantity ==
  /\ \E id \in DOMAIN products, change \in (-MaxQty - 1)..MaxQty :
       LET r == methodUpdateQuantity(products, ledger, id, change)
       IN /\ \A p \in DOMAIN r.products : r.products[p].quantity <= MaxQty
          /\ products' = r.products
          /\ ledger' = r.ledger
          /\ last' = PLabel("methodUpdateQuantity", id, change, r)
  /\ UNCHANGED <<manager, reqs, cats, nextCat, handed, steps>>

StockNext ==
  \/ CreateProduct
  \/ UpdateProduct
  \/ UpdateProductQuantity
  \/ UpdateQuantity
  \/ BulkUpdateQuantities
  \/ MethodUpdateQuantity

StockSpec == Init /\ [][StockNext]_vars

\* ------------------------------------------------------------------------
\* State machine of concurrent product requests.  A handler runs up to its
\* next await and is suspended there; the persistence call it awaits is
\* atomic, and calls of different requests interleave freely.
\* ------------------------------------------------------------------------
\* a request: op and id name the handler and the product; quantity is
\* req.body.quantity; pc is the persistence call the handler awaits next;
\* existing is existingProduct.quantity and updated is
\* updatedProduct.quantity.  held, raced, wrote and entry record what
\* happened: the stored quantity just before the request's product write,
\* whether another request changed the stored quantity between this
\* request's read and its write, whether its product write was applied, and
\* the position of the ledger entry it appended (0 for none).
NewRequest(op, id, quantity, pc) ==
  [op |-> op, id |-> id, quantity |-> quantity, pc |-> pc,
   existing |-> NoNumber, updated |-> NoNumber,
   held |-> NoNumber, raced |-> FALSE, wrote |-> FALSE, entry |-> 0]

\* previousQuantity taken from the store at the moment of the write
previousQuantityAtWrite(r) == r.held

\* const previousQuantity = existingProduct.quantity
previousQuantityRead(r) == r.existing

\* a catch block that restores the quantity the product held before the write
catchRollback(ps, r) ==
  IF r.op = "updateProduct" THEN [ps EXCEPT ![r.id].quantity = r.held] ELSE ps

\* the catch block of createProduct and of updateProduct: it logs the error
\* and answers with the error's status; the product is left as written
catchError(ps, r) == ps

\* createProduct up to its second await: productDAO.create(req.body)
RequestCreate ==
  /\ Len(reqs) < MaxRequests
  /\ Cardinality(DOMAIN products) < MaxProducts
  /\ \E quantity \in QtyInputs :
       LET id == ProductIds[Cardinality(DOMAIN products) + 1]
           r == NewRequest("createProduct", id, quantity, "create")
       IN IF ~ValidQuantity(quantity)
          THEN /\ reqs' = Append(reqs, [r EXCEPT !.pc = "failed"])
               /\ UNCHANGED products
          ELSE /\ products' = [p \in (DOMAIN products) \cup {id} |->
                                 IF p = id THEN [quantity |-> quantity] ELSE products[p]]
               /\ reqs' = Append(reqs, [r EXCEPT !.held = 0, !.existing = 0,
                                                 !.updated = quantity, !.wrote = TRUE,
                                                 !.pc = IF quantity > 0
                                                        THEN "createTransaction" ELSE "done"])
  /\ UNCHANGED <<manager, cats, nextCat, ledger, handed, steps, last>>

\* updateProduct up to its second await: productDAO.findById(id)
RequestFindById ==
  /\ Len(reqs) < MaxRequests
  /\ \E id \in KnownProducts, quantity \in QtyInputs :
       LET r == NewRequest("updateProduct", id, quantity, "findById")
       IN reqs' = Append(reqs,
                         IF id \notin DOMAIN products THEN [r EXCEPT !.pc = "failed"]
                         ELSE [r EXCEPT !.existing = products[id].quantity,
                                        !.pc = "updateById"])
  /\ UNCHANGED <<manager, cats, nextCat, products, ledger, handed, steps, last>>

\* updateProduct from productDAO.updateById(id, req.body) to its next await
RequestUpdateById ==
  /\ \E n \in 1..Len(reqs) :
       /\ reqs[n].pc = "updateById"
       /\ LET r == reqs[n]
              u == updateProductById(products, ledger, r.id, r.quantity)
              updated == u.products[r.id].quantity
              changed == updated # products[r.id].quantity
              mine == IF ~u.ok THEN [r EXCEPT !.pc = "failed"]
                      ELSE [r EXCEPT !.held = products[r.id].quantity,
                                     !.updated = updated,
                                     !.wrote = TRUE,
                                     !.pc = IF previousQuantityRead(r) # updated
                                            THEN "createTransaction" ELSE "done"]
          IN /\ products' = u.products
             /\ reqs' = [m \in 1..Len(reqs) |->
                           IF m = n THEN mine
                           ELSE IF /\ changed
                                   /\ reqs[m].op = "updateProduct"
                                   /\ reqs[m].id = r.id
                                   /\ reqs[m].pc = "updateById"
                           THEN [reqs[m] EXCEPT !.raced = TRUE]
                           ELSE reqs[m]]
  /\ UNCHANGED <<manager, cats, nextCat, ledger, handed, steps, last>>

\* the entry a request hands to createTransaction
RequestEntry(r) ==
  IF r.op = "createProduct"
  THEN [product |-> r.id, type |-> "stock_in", quantity |-> r.updated,
        previousQuantity |-> 0, newQuantity |-> r.updated,
        reason |-> "Initial stock", performedBy |-> "System"]
  ELSE [product |-> r.id, type |-> "adjustment",
        quantity |-> r.updated - previousQuantityRead(r),
        previousQuantity |-> previousQuantityRead(r), newQuantity |-> r.updated,
        reason |-> "Product update", performedBy |-> "User"]

\* inventoryTransactionDAO.createTransaction(...) of either handler, up to
\* the response; the store accepts the save or rejects it, and a rejection
\* ends in the handler's catch block
RequestCreateTransaction ==
  /\ \E n \in 1..Len(reqs), accepted \in BOOLEAN :
       /\ reqs[n].pc = "createTransaction"
       /\ LET r == reqs[n]
              t == createTransaction(ledger, RequestEntry(r))
          IN IF accepted /\ t.ok
             THEN /\ Len(t.ledger) <= MaxLedger
                  /\ ledger' = t.ledger
                  /\ products' = products
                  /\ reqs' = [reqs EXCEPT ![n].pc = "done", ![n].entry = Len(t.ledger)]
             ELSE /\ ledger' = ledger
                  /\ products' = catchError(products, r)
                  /\ reqs' = [reqs EXCEPT ![n].pc = "failed"]
  /\ UNCHANGED <<manager, cats, nextCat, handed, steps, last>>

RaceNext ==
  \/ RequestCreate
  \/ RequestFindById
  \/ RequestUpdateById
  \/ RequestCreateTransaction

RaceSpec == Init /\ [][RaceNext]_vars

\* ------------------------------------------------------------------------
\* The in-memory InventoryManager and its Product class.  manager.products
\* is this.products; a product is its id, _name and _quantity (the price
\* takes no part in what is modelled).  Product.generateId() builds an id
\* from the clock and a random number; the n-th constructed product gets
\* the n-th id of GeneratedIds, and manager.generated counts the constructed ones.
\* ------------------------------------------------------------------------
\* names a caller passes
ManagerNames == {"Widget", "WIDGET", " Widget", "Gadget"}

\* String.prototype.toLowerCase
toLowerCase(name) ==
  CASE name = "Widget" -> "widget"
    [] name = "WIDGET" -> "widget"
    [] name = " Widget" -> " widget"
    [] name = "Gadget" -> "gadget"

\* String.prototype.trim
trim(name) ==
  CASE name = " Widget" -> "Widget"
    [] OTHER -> name

\* the ids Product.generateId() returns, in the order of the calls
GeneratedIds == <<"g1", "g2", "g3", "g4", "g5", "g6">>

\* an id no product has
NoProductId == "g0"

\* updates.name when the updates object has no name
NoName == "undefined"

\* Array.prototype.find: the first of the positions that pass the test
First(S) == CHOOSE i \in S : \A j \in S : i <= j

\* findProductByName(name): the position of the first product whose name
\* equals name when both are lower-cased, 0 for null
findProductByName(ps, name) ==
  LET S == {i \in 1..Len(ps) : toLowerCase(ps[i].name) = toLowerCase(name)}
  IN IF S = {} THEN 0 ELSE First(S)

\* findProductById(productId)
findProductById(ps, productId) ==
  LET S == {i \in 1..Len(ps) : ps[i].id = productId}
  IN IF S = {} THEN 0 ELSE First(S)

\* Product.setQuantity accepts the value: a number, an integer, not negative
setQuantityAccepts(quantity) == quantity # NoNumber /\ quantity >= 0

MOk(m, out) == [manager |-> m, ok |-> TRUE, err |-> "none", msg |-> "none", out |-> out]
MThrow(m, msg) == [manager |-> m, ok |-> FALSE, err |-> "Error", msg |-> msg, out |-> NoOut]

\* new Product(name, price, quantity) pushed to this.products
pushProduct(m, name, quantity) ==
  [products |-> Append(m.products, [id |-> GeneratedIds[m.generated + 1], name |-> trim(name),
                                    quantity |-> quantity]),
   generated |-> m.generated + 1]

\* InventoryManager.addProduct(name, price, quantity)
addProduct(m, name, quantity) ==
  IF findProductByName(m.products, name) # 0
  THEN MThrow(m, "Product already exists")
  ELSE IF ~setQuantityAccepts(quantity)
  THEN MThrow(m, "Product quantity cannot be negative")
  ELSE MOk(pushProduct(m, name, quantity), <<GeneratedIds[m.generated + 1]>>)

\* InventoryManager.removeProduct(productId)
removeProduct(m, productId) ==
  LET productIndex == findProductById(m.products, productId)
  IN IF productIndex # 0
     THEN MOk([m EXCEPT !.products =
                 [i \in 1..(Len(m.products) - 1) |->
                    IF i < productIndex THEN m.products[i] ELSE m.products[i + 1]]],
              <<TRUE>>)
     ELSE MOk(m, <<FALSE>>)

\* InventoryManager.updateProduct(productId, updates) with updates.name and
\* updates.quantity; Product.update sets the name first, then the quantity
managerUpdateProduct(m, productId, updates) ==
  LET n == findProductById(m.products, productId)
      product == m.products[n]
      existing == findProductByName(m.products, updates.name)
      named == IF updates.name # NoName
               THEN [m EXCEPT !.products[n].name = trim(updates.name)] ELSE m
  IN IF n = 0 THEN MOk(m, <<FALSE>>)
     ELSE IF /\ updates.name # NoName
             /\ updates.name # product.name
             /\ existing # 0
             /\ m.products[existing].id # productId
     THEN MThrow(m, "Product already exists")
     ELSE IF updates.quantity = NoNumber THEN MOk(named, <<TRUE>>)
     ELSE IF ~setQuantityAccepts(updates.quantity)
     THEN MThrow(named, "Product quantity cannot be negative")
     ELSE MOk([named EXCEPT !.products[n].quantity = updates.quantity], <<TRUE>>)

\* updateProductQuantity that stores whatever the sum is
managerUpdateProductQuantityUnchecked(m, productId, change) ==
  LET n == findProductById(m.products, productId)
  IN IF n = 0 THEN MOk(m, <<FALSE>>)
     ELSE MOk([m EXCEPT !.products[n].quantity = @ + change], <<TRUE>>)

\* InventoryManager.updateProductQuantity(productId, change)
managerUpdateProductQuantity(m, productId, change) ==
  LET n == findProductById(m.products, productId)
      newQuantity == m.products[n].quantity + change
  IN IF n = 0 THEN MOk(m, <<FALSE>>)
     ELSE IF newQuantity < 0 THEN MThrow(m, "Cannot reduce quantity below zero")
     ELSE IF ~setQuantityAccepts(newQuantity)
     THEN MThrow(m, "Product quantity cannot be negative")
     ELSE MOk([m EXCEPT !.products[n].quantity = newQuantity], <<TRUE>>)

\* InventoryManager.clearInventory()
clearInventory(m) == MOk([m EXCEPT !.products = <<>>], <<Len(m.products)>>)

\* the loop of importFromJSON over jsonData.products
RECURSIVE ImportLoop(_, _, _, _)
ImportLoop(m, data, replace, importedCount) ==
  IF data = <<>> THEN MOk(m, <<importedCount>>)
  ELSE LET productData == Head(data)
       IN IF ~replace /\ findProductByName(m.products, productData.name) # 0
          THEN ImportLoop(m, Tail(data), replace, importedCount)
          ELSE IF ~setQuantityAccepts(productData.quantity)
          THEN ImportLoop(m, Tail(data), replace, importedCount)
          ELSE ImportLoop(pushProduct(m, productData.name, productData.quantity),
                          Tail(data), replace, importedCount + 1)

\* InventoryManager.importFromJSON(jsonData, replace)
importFromJSON(m, data, replace) ==
  ImportLoop(IF replace THEN [m EXCEPT !.products = <<>>] ELSE m, data, replace, 0)

\* ------------------------------------------------------------------------
\* State machine of the in-memory InventoryManager
\* ------------------------------------------------------------------------
ManagerIds == {manager.products[i].id : i \in 1..Len(manager.products)} \cup {NoProductId}

\* quantities and quantity changes a caller passes
ManagerQuantities == {0 - 1, 1}

ManagerChanges == {0 - MaxQty, 0 - 1, 1}

ManagerUpdates ==
  {[name |-> n, quantity |-> NoNumber] : n \in ManagerNames}
    \cup {[name |-> NoName, quantity |-> q] : q \in {0 - 1, MaxQty}}

\* the products of an imported JSON document, by position
ImportEntries ==
  <<{[name |-> "Widget", quantity |-> 1], [name |-> "Gadget", quantity |-> 0 - 1]},
    {[name |-> n, quantity |-> 1] : n \in {"WIDGET", " Widget", "Gadget"}}>>

MLabel(op, id, arg, r) ==
  [op |-> op, id |-> id, arg |-> arg, ok |-> r.ok, err |-> r.err, msg |-> r.msg, out |-> r.out]

\* the run stays within MaxGenerated products and quantities up to MaxQty
WithinBounds(m) ==
  /\ m.generated <= MaxGenerated
  /\ \A i \in 1..Len(m.products) : m.products[i].quantity <= MaxQty

AddProduct ==
  \E name \in ManagerNames, quantity \in ManagerQuantities :
    LET r == addProduct(manager, name, quantity)
    IN /\ WithinBounds(r.manager)
       /\ manager' = r.manager
       /\ last' = MLabel("addProduct", NoProductId, <<name, quantity>>, r)
       /\ UNCHANGED <<reqs, cats, nextCat, products, ledger, handed, steps>>

RemoveProduct ==
  \E id \in ManagerIds :
    LET r == removeProduct(manager, id)
    IN /\ manager' = r.manager
       /\ last' = MLabel("removeProduct", id, <<>>, r)
       /\ UNCHANGED <<reqs, cats, nextCat, products, ledger, handed, steps>>

ManagerUpdateProduct ==
  \E id \in ManagerIds, updates \in ManagerUpdates :
    LET r == managerUpdateProduct(manager, id, updates)
    IN /\ manager' = r.manager
       /\ last' = MLabel("updateProduct", id, updates, r)
       /\ UNCHANGED <<reqs, cats, nextCat, products, ledger, handed, steps>>

ManagerUpdateProductQuantity ==
  \E id \in ManagerIds, change \in ManagerChanges :
    LET r == managerUpdateProductQuantity(manager, id, change)
    IN /\ WithinBounds(r.manager)
       /\ manager' = r.manager
       /\ last' = MLabel("updateProductQuantity", id, change, r)
       /\ UNCHANGED <<reqs, cats, nextCat, products, ledger, handed, steps>>

ClearInventory ==
  LET r == clearInventory(manager)
  IN /\ manager' = r.manager
     /\ last' = MLabel("clearInventory", NoProductId, <<>>, r)
     /\ UNCHANGED <<reqs, cats, nextCat, products, ledger, handed, steps>>

ImportFromJSON ==
  \E a \in ImportEntries[1], b \in ImportEntries[2], replace \in BOOLEAN :
    LET r == importFromJSON(manager, <<a, b>>, replace)
    IN /\ WithinBounds(r.manager)
       /\ manager' = r.manager
       /\ last' = MLabel("importFromJSON", NoProductId, <<<<a, b>>, replace>>, r)
       /\ UNCHANGED <<reqs, cats, nextCat, products, ledger, handed, steps>>

ManagerNext ==
  \/ AddProduct
  \/ RemoveProduct
  \/ ManagerUpdateProduct
  \/ ManagerUpdateProductQuantity
  \/ ClearInventory
  \/ ImportFromJSON

ManagerSpec == Init /\ [][ManagerNext]_vars

\* ------------------------------------------------------------------------
\* The tree as the parent pointers define it
\* ------------------------------------------------------------------------
RECURSIVE AncestorSet(_, _, _)
AncestorSet(cs, c, fuel) ==
  IF fuel = 0 \/ c \notin DOMAIN cs THEN {}
  ELSE IF cs[c].parent = NoParent THEN {}
  ELSE {cs[c].parent} \cup AncestorSet(cs, cs[c].parent, fuel - 1)

\* the categories on c's parent chain
TreeAncestors(cs, c) == AncestorSet(cs, c, Cardinality(DOMAIN cs))

\* the transitive descendants of x along parent pointers
TreeDescendants(cs, x) == {c \in DOMAIN cs : x \in TreeAncestors(cs, c)}

TreeChildren(cs, x) == {c \in DOMAIN cs : cs[c].parent = x}

\* c's parent chain ends at a root, through existing categories only
RECURSIVE Rooted(_, _, _)
Rooted(cs, c, fuel) ==
  /\ fuel > 0
  /\ c \in DOMAIN cs
  /\ \/ cs[c].parent = NoParent
     \/ Rooted(cs, cs[c].parent, fuel - 1)

\* the ids of c's ancestors, from the root down to its parent
RECURSIVE IdChain(_, _, _)
IdChain(cs, c, fuel) ==
  IF fuel = 0 \/ c \notin DOMAIN cs THEN <<>>
  ELSE IF cs[c].parent = NoParent THEN <<>>
  ELSE Append(IdChain(cs, cs[c].parent, fuel - 1), cs[c].parent)

Derived(cs, c) ==
  IF cs[c].parent = NoParent
  THEN cs[c].level = 0 /\ cs[c].path = <<>>
  ELSE /\ cs[c].level = cs[cs[c].parent].level + 1
       /\ cs[c].path = IdChain(cs, c, Cardinality(DOMAIN cs) + 1)

\* ------------------------------------------------------------------------
\* Claims on the category tree
\* ------------------------------------------------------------------------

\* C1: every category whose parent chain ends at a root has level 0 and an
\* empty path when it has no parent, and otherwise level = parent.level + 1
\* and path = the ids of its ancestors from the root down to its parent.
C1_PathLevelDerived ==
  \A c \in DOMAIN cats :
    Rooted(cats, c, Cardinality(DOMAIN cats) + 1) => Derived(cats, c)

\* C2: a successful moveCategory(X, newParent) to a parent outside X's own
\* subtree shifts the level of every descendant D of X (pre-move, along
\* parent pointers) by the delta of X's level and replaces, in D's path,
\* X's old ancestor prefix by X's new one, the rest of the path unchanged.
C2_CascadeToDescendants ==
  [][(/\ last'.op = "moveCategory"
      /\ last'.ok
      /\ last'.arg \notin {last'.id} \cup TreeDescendants(cats, last'.id))
     => \A d \in TreeDescendants(cats, last'.id) :
          /\ d \in DOMAIN cats'
          /\ cats'[d].level - cats[d].level
               = cats'[last'.id].level - cats[last'.id].level
          /\ cats'[d].path
               = cats'[last'.id].path
                   \o SubSeq(cats[d].path, Len(cats[last'.id].path) + 1, Len(cats[d].path))]_vars

\* C3: moveCategory(X, Y) with Y = X or Y a transitive descendant of X
\* along parent pointers is rejected and changes no category.
C3_CycleRejected ==
  [][(/\ last'.op = "moveCategory"
      /\ last'.id \in DOMAIN cats
      /\ last'.arg \in {last'.id} \cup TreeDescendants(cats, last'.id))
     => (~last'.ok /\ cats' = cats)]_vars

\* C8: after a successful deleteWithChildren(c, move_to_parent | move_to_root)
\* c is gone, no remaining category has c as its parent, every former child
\* of c hangs under c's former parent (move_to_parent) or is a root
\* (move_to_root) with level and path derived from that parent, and every
\* former grandchild's level dropped by as much as its parent's.
C8_ChildrenReparented ==
  [][(/\ last'.op = "deleteWithChildren"
      /\ last'.arg \in {"move_to_parent", "move_to_root"}
      /\ last'.ok)
     => LET c == last'.id
            target == IF last'.arg = "move_to_root" THEN NoParent ELSE cats[c].parent
        IN /\ c \notin DOMAIN cats'
           /\ \A d \in DOMAIN cats' : cats'[d].parent # c
           /\ \A k \in TreeChildren(cats, c) \ {c} :
                /\ k \in DOMAIN cats'
                /\ cats'[k].parent = target
                /\ (target = NoParent \/ target \in DOMAIN cats') => Derived(cats', k)
                /\ \A g \in TreeChildren(cats, k) \ {c, k} :
                     /\ g \in DOMAIN cats'
                     /\ cats[g].level - cats'[g].level = cats[k].level - cats'[k].level]_vars

\* C9: after a successful deleteWithChildren(c, delete_all) neither c nor any
\* transitive descendant of c along parent pointers exists, and every
\* category outside c's subtree is unchanged.
C9_SubtreeDeleted ==
  [][(/\ last'.op = "deleteWithChildren"
      /\ last'.arg = "delete_all"
      /\ last'.ok)
     => LET c == last'.id
            subtree == {c} \cup TreeDescendants(cats, c)
        IN /\ (DOMAIN cats') \cap subtree = {}
           /\ \A o \in (DOMAIN cats) \ subtree :
                o \in DOMAIN cats' /\ cats'[o] = cats[o]]_vars

\* C10: deleteWithChildren without a disposition, and the deleteCategory
\* request with or without force, on a category that has a child is rejected
\* and deletes or modifies no category.
C10_DeleteNeedsDisposition ==
  [][(/\ \/ last'.op = "deleteWithChildren" /\ last'.arg = "default"
         \/ last'.op = "deleteCategory"
      /\ last'.id \in DOMAIN cats
      /\ TreeChildren(cats, last'.id) # {})
     => (~last'.ok /\ cats' = cats)]_vars

\* ------------------------------------------------------------------------
\* Claims on the stock coordinator and the ledger
\* ------------------------------------------------------------------------

\* C4: the ledger entry E that createProduct or updateProduct appends has
\* E.newQuantity - E.previousQuantity = E.quantity as stored, and
\* E.newQuantity = the product's stored quantity right after the write.
C4_EntryMatchesTransition ==
  [][(/\ last'.op \in {"createProduct", "updateProduct"}
      /\ Len(ledger') = Len(ledger) + 1)
     => LET E == ledger'[Len(ledger')]
        IN /\ E.newQuantity - E.previousQuantity = E.quantity
           /\ E.newQuantity = products'[E.product].quantity]_vars

\* a request that names a quantity below zero, or a change that leads below zero
AsksNegative(l, ps) ==
  \/ /\ l.op \in {"createProduct", "updateProduct", "updateProductQuantity", "updateQuantity"}
     /\ l.arg # NoNumber
     /\ l.arg < 0
  \/ /\ l.op = "methodUpdateQuantity"
     /\ ps[l.id].quantity + l.arg < 0

C6_SignByType ==
  (/\ last.op = "createTransaction"
   /\ last.id # Missing
   /\ last.arg \in Types
   /\ last.out[1] # NoNumber
   /\ last.out[1] # 0)
  => LET q == last.out[1]
         magnitude == IF q < 0 THEN 0 - q ELSE q
     IN /\ handed.type = last.arg
        /\ last.arg \in {"stock_out", "damaged", "expired", "returned"}
             => handed.quantity = 0 - magnitude
        /\ last.arg \in {"stock_in", "adjustment"} => handed.quantity = magnitude
        /\ last.arg = "transfer" => handed.quantity = q

\* C6 witness: a returned transaction of quantity 2 was handed over as -2
C6_Witness ==
  /\ last.op = "createTransaction"
  /\ last.arg = "returned"
  /\ last.out[1] = 2
  /\ handed = [type |-> "returned", quantity |-> -2]

\* C7: every ledger entry has newQuantity - previousQuantity = quantity.
C7_LedgerConsistent ==
  \A i \in 1..Len(ledger) :
    ledger[i].newQuantity - ledger[i].previousQuantity = ledger[i].quantity

\* the largest index of a TRUE flag among the entries that name id, 0 if none
LastApplied(ids, flags, id) ==
  LET S == {i \in 1..Len(ids) : ids[i] = id /\ flags[i]}
  IN IF S = {} THEN 0 ELSE CHOOSE i \in S : \A j \in S : j <= i

C12_ReorderPerEntry ==
  [][last'.op = "reorderCategories"
     => LET orders == last'.arg
            results == last'.out
            ids == [i \in 1..Len(orders) |-> orders[i].categoryId]
        IN /\ Len(results.successful) + Len(results.failed) = Len(orders)
           /\ \A i \in 1..Len(orders) :
                /\ results.flags[i] =>
                     /\ ids[i] \in DOMAIN cats'
                     /\ cats'[ids[i]].sortOrder
                          = orders[LastApplied(ids, results.flags, ids[i])].sortOrder
                /\ ids[i] \notin DOMAIN cats => ~results.flags[i]
                /\ ids[i] \in DOMAIN cats => results.flags[i]]_vars

\* C13: moveCategory with a category id or a new parent id that matches no
\* category, and deleteWithChildren with a category id that matches no
\* category, fail and leave the set of categories and every field of every
\* category as they were.
C13_NotFoundBeforeWrite ==
  [][(\/ /\ last'.op = "moveCategory"
         /\ \/ last'.id \notin DOMAIN cats
            \/ last'.arg # NoParent /\ last'.arg \notin DOMAIN cats
      \/ /\ last'.op = "deleteWithChildren"
         /\ last'.id \notin DOMAIN cats)
     => (~last'.ok /\ cats' = cats)]_vars

\* C13 witness: moving an existing category that has a child under an id
\* that matches no category was refused
C13_Witness ==
  /\ last.op = "moveCategory"
  /\ last.id \in DOMAIN cats
  /\ TreeChildren(cats, last.id) # {}
  /\ last.arg = GhostId
  /\ ~last.ok
  /\ last.msg = "New parent category not found"

\* C14: deleteWithChildren with a disposition other than move_to_parent,
\* move_to_root or delete_all fails and deletes or modifies no category.
C14_InvalidActionRejected ==
  [][(/\ last'.op = "deleteWithChildren"
      /\ last'.arg \notin {"move_to_parent", "move_to_root", "delete_all", "default"})
     => (~last'.ok /\ cats' = cats)]_vars

\* C14 witness: deleteWithChildren with the disposition "archive" on an
\* existing category that has an active child was refused as an invalid action
C14_Witness ==
  /\ last.op = "deleteWithChildren"
  /\ last.arg = "archive"
  /\ last.id \in DOMAIN cats
  /\ getChildren(cats, last.id) # {}
  /\ ~last.ok
  /\ last.msg = "Invalid action"

\* C15: a create whose parent names an id that matches no category fails
\* and stores no category.
C15_CreateNeedsParent ==
  [][(/\ last'.op = "create"
      /\ last'.arg # NoParent
      /\ last'.arg \notin DOMAIN cats)
     => (~last'.ok /\ cats' = cats)]_vars

\* C16: after a successful create or updateCategory request the category is
\* not its own ancestor and, when its parent chain ends at a root, its stored
\* level and path are the ones derived from that chain, whatever parent,
\* level or path the request carried.
C16_LevelPathNotFromCaller ==
  [][(/\ last'.op \in {"create", "updateCategory"}
      /\ last'.ok
      /\ last'.id \in DOMAIN cats')
     => LET c == last'.id
        IN /\ c \notin TreeAncestors(cats', c)
           /\ Rooted(cats', c, Cardinality(DOMAIN cats') + 1) => Derived(cats', c)]_vars

\* C17: a successful createProduct, updateProduct, updateProductQuantity or
\* updateQuantity that changes the product's stored quantity appends exactly
\* one ledger entry, for that product, and one that leaves the quantity as
\* it was appends none; a bulk update appends an entry for every product
\* whose quantity it changed and none when it changed no quantity.
C17_EntryPerQuantityChange ==
  [][/\ (/\ last'.op \in {"createProduct", "updateProduct",
                          "updateProductQuantity", "updateQuantity"}
         /\ last'.ok)
        => LET id == last'.id
               changed == IF id \in DOMAIN products
                          THEN products'[id].quantity # products[id].quantity
                          ELSE products'[id].quantity > 0
           IN IF changed
              THEN /\ Len(ledger') = Len(ledger) + 1
                   /\ SubSeq(ledger', 1, Len(ledger)) = ledger
                   /\ ledger'[Len(ledger')].product = id
              ELSE ledger' = ledger
     /\ last'.op = "bulkUpdateQuantities"
        => /\ \A p \in DOMAIN products :
                products'[p].quantity # products[p].quantity
                => \E i \in (Len(ledger) + 1)..Len(ledger') : ledger'[i].product = p
           /\ products' = products => ledger' = ledger]_vars

\* C18: a ledger entry that exists in one state exists with the same field
\* values in every later state: every step leaves the stored entries in
\* place and at most appends to them.
C18_LedgerAppendOnly ==
  [][/\ Len(ledger') >= Len(ledger)
     /\ SubSeq(ledger', 1, Len(ledger)) = ledger]_vars

\* ------------------------------------------------------------------------
\* Claims on concurrent product requests
\* ------------------------------------------------------------------------

\* C19: the ledger entry of an updateProduct request carries as
\* previousQuantity the quantity the request read at findById; it differs
\* from the quantity the product held just before the request's own write
\* only when another request changed the stored quantity in between, and
\* with two requests on the same product such a state is reachable
\* (C19_Witness).
C19_PreviousQuantityIsTheReadOne ==
  \A n \in 1..Len(reqs) :
    (reqs[n].op = "updateProduct" /\ reqs[n].entry # 0)
    => LET E == ledger[reqs[n].entry]
       IN /\ E.previousQuantity = reqs[n].existing
          /\ E.previousQuantity # reqs[n].held => reqs[n].raced

\* C19 witness: an entry of an updateProduct request whose previousQuantity
\* is not the quantity the product held just before that request's write
C19_Witness ==
  \E n \in 1..Len(reqs) :
    /\ reqs[n].op = "updateProduct"
    /\ reqs[n].entry # 0
    /\ ledger[reqs[n].entry].previousQuantity # reqs[n].held
    /\ \E m \in 1..Len(reqs) : m # n /\ reqs[m].op = "updateProduct" /\ reqs[m].id = reqs[n].id

\* C20: every ledger entry was appended by a request whose product write had
\* been applied before, whatever the interleaving, and a request whose
\* ledger append fails leaves the products as they were written.
C20_WriteBeforeAppend ==
  [][/\ \A i \in 1..Len(ledger') :
          \E n \in 1..Len(reqs') :
            /\ reqs'[n].entry = i
            /\ reqs'[n].wrote
            /\ reqs'[n].id \in DOMAIN products'
            /\ ledger'[i].product = reqs'[n].id
     /\ \A n \in 1..Len(reqs) :
          reqs[n].pc = "createTransaction"
          => /\ reqs[n].wrote
             /\ reqs'[n].pc = "failed" => products' = products]_vars

\* C20 witness: an updateProduct request whose ledger append failed after its
\* write changed the quantity, and the product still holds the written one
C20_Witness ==
  \E n \in 1..Len(reqs) :
    /\ reqs[n].op = "updateProduct"
    /\ reqs[n].pc = "failed"
    /\ reqs[n].wrote
    /\ reqs[n].entry = 0
    /\ reqs[n].held # reqs[n].updated
    /\ products[reqs[n].id].quantity = reqs[n].updated

\* ------------------------------------------------------------------------
\* Claims on the ledger component
\* ------------------------------------------------------------------------

\* the entry lacks product, type or quantity
Incomplete(d) == d.product = Missing \/ d.type = Missing \/ d.quantity = NoNumber

\* C21: createTransaction without product, type or quantity fails with
\* nothing handed to persistence and the ledger unchanged; inside
\* bulkCreateTransactions such an entry is reported as failed, every entry
\* that would be created on its own is created, and the ledger grows by
\* exactly the created entries.
C21_MissingFieldsFailFast ==
  [][/\ (/\ last'.op = "createTransaction"
         /\ \/ last'.id = Missing
            \/ last'.arg = Missing
            \/ last'.out[1] = NoNumber)
        => (~last'.ok /\ ledger' = ledger /\ handed' = NotHanded)
     /\ last'.op = "bulkCreateTransactions"
        => LET transactions == last'.arg
               flags == last'.out
           IN /\ Len(flags) = Len(transactions)
              /\ \A i \in 1..Len(transactions) :
                   /\ Incomplete(transactions[i]) => ~flags[i]
                   /\ createTransaction(<<>>, transactions[i]).ok => flags[i]
              /\ Len(ledger')
                   = Len(ledger) + Cardinality({i \in 1..Len(flags) : flags[i]})
              /\ SubSeq(ledger', 1, Len(ledger)) = ledger]_vars

\* C21 witness: a bulk creation whose first entry lacks the product and is
\* reported as failed, and whose second entry is in the ledger
C21_Witness ==
  /\ last.op = "bulkCreateTransactions"
  /\ last.arg[1].product = Missing
  /\ last.arg[1].quantity # 0
  /\ last.out = <<FALSE, TRUE>>
  /\ Len(ledger) > 0
  /\ ledger[Len(ledger)].product = last.arg[2].product
  /\ ledger[Len(ledger)].type = last.arg[2].type

C23_EveryTypePersisted ==
  [][(/\ last'.op = "createTransaction"
      /\ last'.id # Missing
      /\ last'.arg \in Types
      /\ last'.out[1] \notin {0, NoNumber}
      /\ last'.out[2] # NoNumber
      /\ last'.out[3] # NoNumber)
     => /\ last'.ok
        /\ Len(ledger') = Len(ledger) + 1
        /\ ledger'[Len(ledger')].type = last'.arg
        /\ last'.arg = "returned" => ledger'[Len(ledger')].quantity < 0]_vars

\* -1, 0 or 1
Sign(x) == IF x < 0 THEN 0 - 1 ELSE IF x > 0 THEN 1 ELSE 0

\* C24: when a createTransaction call stores an entry, the call with the
\* same fields and the opposite sign of the quantity stores an entry of the
\* same sign, for every type including transfer; and the stored quantity is
\* left as it is by the sign rule.
C24_SameSignForSameInput ==
  [][(last'.op = "createTransaction" /\ last'.ok)
     => LET E == ledger'[Len(ledger')]
            twin == createTransaction(ledger, [E EXCEPT !.quantity = 0 - last'.out[1]])
        IN /\ twin.ok
           /\ Sign(twin.ledger[Len(twin.ledger)].quantity) = Sign(E.quantity)
           /\ NormalizeQuantity(E.type, E.quantity) = E.quantity]_vars

\* ------------------------------------------------------------------------
\* Claims on error kinds
\* ------------------------------------------------------------------------

\* C25: every failure of a category operation carries one of the kinds
\* ValidationError, NotFoundError, InvalidOperationError, DuplicateError; a
\* category id that matches no category yields NotFoundError, and a move
\* under the category itself or under one of its descendants, or an
\* unrecognized delete disposition, yields InvalidOperationError.
C25_TypedErrors ==
  [][~last'.ok
     => /\ last'.err \in {"ValidationError", "NotFoundError",
                          "InvalidOperationError", "DuplicateError"}
        /\ (/\ last'.op \in {"moveCategory", "deleteWithChildren"}
            /\ last'.id \notin DOMAIN cats)
           => last'.err = "NotFoundError"
        /\ (/\ last'.op = "moveCategory"
            /\ last'.id \in DOMAIN cats
            /\ last'.arg \in {last'.id} \cup TreeDescendants(cats, last'.id))
           => last'.err = "InvalidOperationError"
        /\ (/\ last'.op = "deleteWithChildren"
            /\ last'.id \in DOMAIN cats
            /\ last'.arg = "archive")
           => last'.err = "InvalidOperationError"]_vars

\* ------------------------------------------------------------------------
\* Claims on the in-memory InventoryManager
\* ------------------------------------------------------------------------
\* no two products of the inventory have names equal ignoring case
DistinctNames(m) ==
  \A i, j \in 1..Len(m.products) :
    i # j => toLowerCase(m.products[i].name) # toLowerCase(m.products[j].name)

\* a product other than the one with this id bears the name, once stored,
\* ignoring case
NameTaken(m, id, name) ==
  \E i \in 1..Len(m.products) :
    /\ m.products[i].id # id
    /\ toLowerCase(m.products[i].name) = toLowerCase(trim(name))

\* C26: after every addProduct, updateProduct, importFromJSON (replace true
\* or false), removeProduct and clearInventory no two products of the
\* inventory have names equal ignoring case; an addProduct or updateProduct
\* that would create such a duplicate throws and leaves the inventory
\* unchanged.
C26_NamesUniqueIgnoringCase ==
  [][/\ DistinctNames(manager) => DistinctNames(manager')
     /\ (/\ last'.op = "addProduct"
         /\ NameTaken(manager, NoProductId, last'.arg[1]))
        => (~last'.ok /\ manager'.products = manager.products)
     /\ (/\ last'.op = "updateProduct"
         /\ findProductById(manager.products, last'.id) # 0
         /\ last'.arg.name # NoName
         /\ NameTaken(manager, last'.id, last'.arg.name))
        => (~last'.ok /\ manager'.products = manager.products)]_vars

\* the quantity of the product with this id
QuantityOf(m, id) == m.products[findProductById(m.products, id)].quantity

\* C27: updateProductQuantity(id, change) on an existing product sets the
\* quantity to old + change and returns true when old + change >= 0, throws
\* and leaves the quantity unchanged when old + change < 0, returns false
\* and changes nothing when no product has the id; and every quantity of
\* the inventory stays >= 0.
C27_QuantityChangeChecked ==
  [][/\ last'.op = "updateProductQuantity"
        => IF findProductById(manager.products, last'.id) = 0
           THEN last'.ok /\ last'.out = <<FALSE>> /\ manager' = manager
           ELSE LET sum == QuantityOf(manager, last'.id) + last'.arg
                IN IF sum >= 0
                   THEN /\ last'.ok /\ last'.out = <<TRUE>>
                        /\ QuantityOf(manager', last'.id) = sum
                   ELSE ~last'.ok /\ manager' = manager
     /\ \A i \in 1..Len(manager'.products) : manager'.products[i].quantity >= 0]_vars

\* a decrease below zero was refused and the product keeps its stock
C27_Witness ==
  /\ last.op = "updateProductQuantity"
  /\ ~last.ok
  /\ last.msg = "Cannot reduce quantity below zero"
  /\ findProductById(manager.products, last.id) # 0
  /\ QuantityOf(manager, last.id) = 1
  /\ last.arg = 0 - MaxQty

\* ------------------------------------------------------------------------
\* Claims on the category queries
\* ------------------------------------------------------------------------
\* the elements of a list
Elements(q) == {q[i] : i \in 1..Len(q)}

\* C28: in every state reached by create, moveCategory and
\* deleteWithChildren, getDescendants(X) returns exactly the transitive
\* descendants of X along parent pointers, ascending in (level, sortOrder,
\* name).
C28_DescendantsExact ==
  \A x \in DOMAIN cats :
    LET documents == SortLevelOrder(cats, getDescendants(cats, x))
    IN /\ Elements(documents) = TreeDescendants(cats, x)
       /\ \A i, j \in 1..Len(documents) :
            i < j => ~LevelOrder(cats, documents[j], documents[i])

\* C29: for a category created under a parent or moved by moveCategory,
\* getAncestors returns exactly the categories of its parent chain, from
\* the root down to the immediate parent; for a category without a parent
\* it returns the empty list.
C29_AncestorsAreParentChain ==
  [][(/\ \/ last'.op = "create"
         \/ last'.op = "moveCategory" /\ last'.ok
      /\ last'.id \in DOMAIN cats'
      /\ Rooted(cats', last'.id, Cardinality(DOMAIN cats')))
     => LET r == getAncestors(cats', last'.id)
        IN /\ r.ok
           /\ r.outs = {IdChain(cats', last'.id, Cardinality(DOMAIN cats'))}]_vars

\* the nodes of the forest, from the roots down
RECURSIVE ForestNodes(_, _, _)
ForestNodes(tree, nodes, fuel) ==
  IF fuel = 0 THEN nodes
  ELSE ForestNodes(tree,
                   nodes \cup UNION {Elements(tree.children[n]) : n \in nodes},
                   fuel - 1)

\* C30: getCategoryTree() returns a forest in which every active category
\* appears exactly once: the active categories without a parent are the
\* roots, and every other active category is in the children list of its
\* parent's node, also when the parent is inactive.
C30_TreeHoldsEveryActive ==
  LET tree == getCategoryTree(cats)
      Active == {c \in DOMAIN cats : cats[c].status = "active"}
  IN /\ Elements(tree.rootCategories) = {c \in Active : cats[c].parent = NoParent}
     /\ \A c \in Active :
          /\ c \in ForestNodes(tree, Elements(tree.rootCategories), Cardinality(Active))
          /\ cats[c].parent # NoParent
             => /\ cats[c].parent \in DOMAIN tree.children
                /\ c \in Elements(tree.children[cats[c].parent])

====
